---- MODULE Spec2Model ----
(***************************************************************************)
(* A model of filter_regions.Filter (src/filter_regions/__main__.py): the  *)
(* construction of a Filter, read(), and the three selection methods       *)
(* maxmean, pq (= maxmean(pq=True)) and wis, one action per step.          *)
(*                                                                         *)
(* Data frames are sequences of records (one record per row, TLA+ position *)
(* i+1 holding pandas position i); every index kept IN a row or in a       *)
(* program variable (OriginalIdx, MethodIdx, loc, j, p, q) is 0-based as   *)
(* in the source.  Scores are small naturals.  The rolling statistics are  *)
(* exact rationals: each Rolling* column stores the numerator over the     *)
(* denominator given by Den, and an output score is a record [num, den].   *)
(***************************************************************************)
EXTENDS Integers, Sequences, FiniteSets, TLC

\* ------------------------------------------------------------------ bounds
\* longest score vector, and its largest score
MaxLen == 8
MaxScore == 1
\* longest vector and largest score of the runs that vary the aggregation
MaxAggLen == 5
MaxAggScore == 2
\* most rows of a two-chromosome table given to maxmean and pq
MaxBedLen == 6
\* largest window_bins
MaxWindow == 3
\* BED files given to wis: most rows, largest coordinate, largest score
MaxRows == 3
MaxCoord == 3
MaxWisScore == 2

\* ------------------------------------------------------- program constants
MAX_ELEMENTS == 100000

\* pandas' missing value; every real cell of the model is >= 0
NaN == -1

AggregationMethods ==
    {"min", "max", "mean", "sum", "median", "variance", "percentile"}

\* percentile as a whole number of hundredths (0.95 is 95)
PercentileDen == 100

\* vector frames have no Chromosome column; NoChromosome stands for its absence
NoChromosome == 0

\* ----------------------------------------------------------------- helpers
Range(f) == {f[i] : i \in DOMAIN f}

RECURSIVE SumSeq(_)
SumSeq(s) == IF s = <<>> THEN 0 ELSE Head(s) + SumSeq(Tail(s))

SetMin(S) == CHOOSE x \in S : \A y \in S : x <= y
SetMax(S) == CHOOSE x \in S : \A y \in S : x >= y

Column(df, name) == [i \in 1..Len(df) |-> df[i][name]]

\* pandas Series.shift(periods): row i takes the value of row i - periods
Shift(col, periods) ==
    [i \in 1..Len(col) |->
        IF (i - periods) \in 1..Len(col) THEN col[i - periods] ELSE NaN]

\* pandas DataFrame.dropna(): drop every row holding a missing value
Dropna(df) == SelectSeq(df, LAMBDA r : \A f \in DOMAIN r : r[f] # NaN)

\* left and right half windows: the two shift amounts of maxmean and wis
Left(w) == w \div 2
Right(w) == IF w % 2 = 1 THEN w \div 2 ELSE w \div 2 - 1

\* the shift with the End column left as read
ShiftWindowStartOnly(df, w) ==
    LET start == Shift(Column(df, "Start"), Left(w))
    IN  [i \in 1..Len(df) |-> [df[i] EXCEPT !.Start = start[i]]]

\* df["Start"] = df.Start.shift(w // 2); df["End"] = df.End.shift(-(...))
ShiftWindow(df, w) ==
    LET start == Shift(Column(df, "Start"), Left(w))
        end   == Shift(Column(df, "End"), 0 - Right(w))
    IN  [i \in 1..Len(df) |-> [df[i] EXCEPT !.Start = start[i], !.End = end[i]]]

\* ------------------------------------------------------ rolling statistics
\* Series.rolling(w, center=True): the window of pandas position r is
\* [r + offset - w + 1, r + offset] with offset = (w - 1) // 2; here on TLA+
\* positions.  min_periods defaults to w: an incomplete window gives NaN.
RollingWindow(r, w) ==
    LET offset == (w - 1) \div 2
    IN  (r + offset - w + 1)..(r + offset)

WindowScores(df, r, w) ==
    LET lo == r + (w - 1) \div 2 - w + 1
    IN  [i \in 1..w |-> df[lo + i - 1].Score]

\* denominators of the stored rolling numerators
Den(stat, w) ==
    CASE stat = "mean" -> w
      [] stat = "median" -> 2
      [] stat = "variance" -> w * (w - 1)
      [] stat = "percentile" -> PercentileDen
      [] OTHER -> 1

Sorted(v) == SortSeq(v, LAMBDA a, b : a < b)

\* each statistic of a complete window v of w scores, times Den(stat, w)
Aggregate(stat, v, pct) ==
    LET w == Len(v)
        sv == Sorted(v)
    IN  CASE stat = "min" -> SetMin(Range(v))
          [] stat = "max" -> SetMax(Range(v))
          [] stat = "mean" -> SumSeq(v)
          [] stat = "sum" -> SumSeq(v)
          [] stat = "median" ->
                IF w % 2 = 1 THEN 2 * sv[(w + 1) \div 2]
                ELSE sv[w \div 2] + sv[w \div 2 + 1]
          [] stat = "variance" ->
                \* Series.var is the sample variance (ddof = 1): NaN on one value
                IF w <= 1 THEN NaN
                ELSE w * SumSeq([i \in 1..w |-> v[i] * v[i]]) - SumSeq(v) * SumSeq(v)
          [] stat = "percentile" ->
                \* linear interpolation at position pct * (w - 1)
                LET pos == pct * (w - 1)
                    lo  == pos \div PercentileDen
                    rem == pos % PercentileDen
                IN  IF rem = 0 THEN PercentileDen * sv[lo + 1]
                    ELSE PercentileDen * sv[lo + 1] + (sv[lo + 2] - sv[lo + 1]) * rem

RollingColumn(stat) ==
    CASE stat = "min" -> "RollingMin"
      [] stat = "max" -> "RollingMax"
      [] stat = "mean" -> "RollingMean"
      [] stat = "sum" -> "RollingSum"
      [] stat = "median" -> "RollingMedian"
      [] stat = "variance" -> "RollingVariance"
      [] stat = "percentile" -> "RollingPercentile"

RollingStat(df, r, w, stat, pct) ==
    IF RollingWindow(r, w) \subseteq 1..Len(df)
    THEN Aggregate(stat, WindowScores(df, r, w), pct)
    ELSE NaN

\* the seven df["Rolling..."] = df["Score"].rolling(w, center=True)... columns
AddRolling(df, w, pct) ==
    [r \in 1..Len(df) |->
        [f \in DOMAIN df[r] \cup {RollingColumn(a) : a \in AggregationMethods} |->
            IF f \in DOMAIN df[r] THEN df[r][f]
            ELSE LET stat == CHOOSE a \in AggregationMethods : RollingColumn(a) = f
                 IN  RollingStat(df, r, w, stat, pct)]]

\* drop regions which fall over two chromosomes: rows with Start >= End
DropInvalid(df) == SelectSeq(df, LAMBDA r : ~(r.Start >= r.End))

\* df["MethodIdx"] = df.index, after reset_index
AddMethodIdx(df) ==
    [i \in 1..Len(df) |->
        [f \in DOMAIN df[i] \cup {"MethodIdx"} |->
            IF f = "MethodIdx" THEN i - 1 ELSE df[i][f]]]

\* lines 268-302 of maxmean: the candidate table the sweep runs on
Candidates(input, input_type, w, pct) ==
    LET shifted == Dropna(ShiftWindow(input, w))
        rolled  == Dropna(AddRolling(shifted, w, pct))
        kept    == IF input_type = "bedgraph" THEN DropInvalid(rolled) ELSE rolled
    IN  AddMethodIdx(kept)

\* ------------------------------------------------------------ priority sort
\* the priority of maxmean with the two rolling keys dropped
MaxMeanBeforeByScore(a, b) ==
    \/ a.Score > b.Score
    \/ a.Score = b.Score /\ a.MethodIdx < b.MethodIdx

\* sort_values(by=["RollingMax", "RollingMean", "Score"], ascending=False):
\* a stable lexicographic sort, ties keeping table order
MaxMeanBefore(a, b) ==
    \/ a.RollingMax > b.RollingMax
    \/ a.RollingMax = b.RollingMax /\ a.RollingMean > b.RollingMean
    \/ a.RollingMax = b.RollingMax /\ a.RollingMean = b.RollingMean
          /\ a.Score > b.Score
    \/ a.RollingMax = b.RollingMax /\ a.RollingMean = b.RollingMean
          /\ a.Score = b.Score /\ a.MethodIdx < b.MethodIdx

\* sort_values(by=["Score"], ascending=False): pandas reverses, argsorts and
\* reverses again; on tables this short the argsort is an insertion sort, so
\* ties keep table order
PqBefore(a, b) ==
    \/ a.Score > b.Score
    \/ a.Score = b.Score /\ a.MethodIdx < b.MethodIdx

SortByPriority(df, pq) ==
    IF pq THEN SortSeq(df, PqBefore) ELSE SortSeq(df, MaxMeanBefore)

\* ------------------------------------------------------------- greedy sweep
SpanStart(j, w) == IF (j - w \div 2) > 0 THEN j - w \div 2 ELSE 0

\* the stop of the span without the one added for an odd window
SpanStopEven(j, w, n) == IF (j + w \div 2) <= n THEN j + w \div 2 ELSE n

SpanStop(j, w, n) ==
    IF w % 2 = 1
    THEN (IF (j + w \div 2 + 1) <= n THEN j + w \div 2 + 1 ELSE n)
    ELSE (IF (j + w \div 2) <= n THEN j + w \div 2 ELSE n)

\* hits[start:stop]
Slice(start, stop) == start..(stop - 1)

\* ------------------------------------------------------------- projection
\* the assignment with every aggregation_method taken for the default
ScoreSourceDefault(aggregation_method, pq) == RollingColumn("max")

\* the column df.Score is assigned from, lines 342-355
ScoreSource(aggregation_method, pq) == RollingColumn(aggregation_method)

ScoreDen(aggregation_method, pq, w) == Den(aggregation_method, w)

RowByLabel(df, label) == CHOOSE r \in Range(df) : r.MethodIdx = label

\* lines 341-365, with preserve_cols=True as in the test scripts
Project(df, indices, aggregation_method, pq, w) ==
    LET picked == [i \in 1..Len(indices) |-> RowByLabel(df, indices[i])]
        scored == [i \in 1..Len(picked) |->
                     [picked[i] EXCEPT !.Score =
                        [num |-> picked[i][ScoreSource(aggregation_method, pq)],
                         den |-> ScoreDen(aggregation_method, pq, w)]]]
    IN  SortSeq(scored, LAMBDA a, b : a.OriginalIdx < b.OriginalIdx)

\* ------------------------------------------------------------------- state
VARIABLES
    args,       \* the arguments of the call Filter(...): method, input, input_type,
                \* window_bins, aggregation_method, percentile and other keywords
    pc,         \* where the run is
    input_df,   \* self.input_df
    df,         \* the working table of the running method
    hits,       \* maxmean: claimed candidate positions
    indices,    \* maxmean: accepted candidate positions, in acceptance order
    k,          \* maxmean: remaining capacity
    loc,        \* maxmean: position of the sweep in the sorted table
    s,          \* wis: translated starts of the sorted intervals
    e,          \* wis: translated ends of the sorted intervals
    p,          \* wis: predecessor of each sorted interval
    opt,        \* wis: the table of the forward pass
    q,          \* wis: indices collected by the backward trace
    j,          \* wis: position of the backward trace
    output_df   \* self.output_df

sweepVars == <<hits, indices, k, loc>>
wisVars == <<s, e, p, opt, q, j>>
vars == <<args, pc, input_df, df, sweepVars, wisVars, output_df>>

\* ------------------------------------------------------------------ inputs
Vectors(maxLen, maxScore) == UNION {[1..n -> 0..maxScore] : n \in 1..maxLen}

\* a table of unit bins: n1 bins of chromosome 1 from coordinate 0, then n2 bins
\* of chromosome 2 from coordinate start2
BinTable(scores, n1, start2) ==
    [i \in 1..Len(scores) |->
        IF i <= n1
        THEN [Chromosome |-> 1, Start |-> i - 1, End |-> i, Score |-> scores[i]]
        ELSE [Chromosome |-> 2, Start |-> start2 + i - n1 - 1,
              End |-> start2 + i - n1, Score |-> scores[i]]]

BinTables(maxLen, maxScore) ==
    {BinTable(v, n1, start2) :
        v \in Vectors(maxLen, maxScore), n1 \in 1..maxLen, start2 \in {0, maxLen}}

\* the inputs of tests/test_np_1d.py and tests/test_np_2d.py
TestVector == <<1, 2, 5, 10, 5, 5, 4, 8, 2, 1, 10, 1, 1, 1, 5>>

TestTable ==
    [i \in 1..Len(TestVector) |->
        [Chromosome |-> 1, Start |-> (i - 1) * 100, End |-> i * 100,
         Score |-> TestVector[i]]]

\* further keyword arguments of a call, as <<name, value>> pairs
NoKeywords == <<>>

TestKeywords ==
    {NoKeywords, << <<"max_elements", 123>> >>, << <<"max_elements", 125000>> >>}

Call(method, input, input_type, w, a, pct, kwargs) ==
    [method |-> method, input |-> input, input_type |-> input_type,
     window_bins |-> w, aggregation_method |-> a, percentile |-> pct,
     kwargs |-> kwargs]

Percentiles(a) == IF a = "percentile" THEN {50, 95} ELSE {95}

\* runs with the default aggregation on score vectors
VectorCalls(maxLen, maxScore, maxWindow) ==
    {Call(m, v, "vector", w, "max", 95, NoKeywords) :
        m \in {"maxmean", "pq"}, v \in Vectors(maxLen, maxScore), w \in 1..maxWindow}

\* runs with every aggregation on shorter score vectors
AggregationCalls(maxLen, maxScore, maxWindow) ==
    UNION {{Call(m, v, "vector", w, a, pct, NoKeywords) :
                m \in {"maxmean", "pq"}, v \in Vectors(maxLen, maxScore),
                w \in 1..maxWindow, pct \in Percentiles(a)} :
           a \in AggregationMethods}

\* runs on two-chromosome tables
BedgraphCalls(maxLen, maxScore, maxWindow) ==
    {Call(m, tb, "bedgraph", w, "max", 95, NoKeywords) :
        m \in {"maxmean", "pq"}, tb \in BinTables(maxLen, maxScore),
        w \in 1..maxWindow}

\* the calls of the test scripts, with and without their max_elements keyword
TestCalls(maxWindow) ==
    {Call(m, TestVector, "vector", w, "max", 95, kw) :
        m \in {"maxmean", "pq", "wis"}, w \in 1..maxWindow,
        kw \in TestKeywords}

TestTableCalls(maxWindow) ==
    {Call(m, TestTable, "bedgraph", w, "max", 95, kw) :
        m \in {"maxmean", "pq"}, w \in 1..maxWindow,
        kw \in TestKeywords}

InitLocals ==
    /\ pc = "new"
    /\ input_df = <<>>
    /\ df = <<>>
    /\ hits = <<>>
    /\ indices = <<>>
    /\ k = 0
    /\ loc = 0
    /\ s = <<>>
    /\ e = <<>>
    /\ p = <<>>
    /\ opt = <<>>
    /\ q = <<>>
    /\ j = 0
    /\ output_df = <<>>

InitSweep ==
    /\ \/ args \in VectorCalls(MaxLen, MaxScore, MaxWindow)
       \/ args \in AggregationCalls(MaxAggLen, MaxAggScore, MaxWindow)
       \/ args \in BedgraphCalls(MaxBedLen, MaxScore, MaxWindow)
    /\ InitLocals

InitTests ==
    /\ \/ args \in TestCalls(MaxWindow)
       \/ args \in TestTableCalls(MaxWindow)
    /\ InitLocals

\* ------------------------------------------------------------ construction
\* the keyword parameters of Filter.__init__
InitKeywords ==
    {"method", "input", "input_type", "window_bins", "bin_size", "exclusion_size",
     "preserve_cols", "aggregation_method", "percentile", "quiet"}

\* Filter.__init__: a keyword that is no parameter raises TypeError; vector input
\* with the wis method exits with EINVAL
Construct ==
    /\ pc = "new"
    /\ pc' = IF ~({kw[1] : kw \in Range(args.kwargs)} \subseteq InitKeywords) THEN "TypeError"
             ELSE IF args.input_type = "vector" /\ args.method = "wis" THEN "EINVAL"
             ELSE "constructed"
    /\ UNCHANGED <<args, input_df, df, sweepVars, wisVars, output_df>>

\* read() of a score vector: Start is the index, End is Start + 1
VectorFrame(v) ==
    [i \in 1..Len(v) |->
        [Chromosome |-> NoChromosome, Start |-> i - 1, End |-> i, Score |-> v[i]]]

\* a sort that keeps the order of rows the comparison does not separate
\* in the order before, a table of truth values over pairs of rows
StableSort(frame, before) ==
    LET perm == SortSeq([i \in 1..Len(frame) |-> i],
                        LAMBDA a, b : \/ before[frame[a], frame[b]]
                                      \/ ~before[frame[b], frame[a]] /\ a < b)
    IN  [i \in 1..Len(frame) |-> frame[perm[i]]]

\* pr.read_bed: a PyRanges keeps one table per chromosome, chromosomes in
\* natural order and rows in file order
ReadBed(input) ==
    StableSort(input, [a \in Range(input), b \in Range(input) |->
                            a.Chromosome < b.Chromosome])

ReadFrame(input, input_type, method) ==
    IF input_type = "vector" THEN VectorFrame(input)
    ELSE IF method = "wis" THEN ReadBed(input)
    ELSE input

Read ==
    /\ pc = "constructed"
    /\ input_df' = ReadFrame(args.input, args.input_type, args.method)
    /\ pc' = "read"
    /\ UNCHANGED <<args, df, sweepVars, wisVars, output_df>>

\* ---------------------------------------------------------- maxmean and pq
\* df["OriginalIdx"] = df.index
AddOriginalIdx(frame) ==
    [i \in 1..Len(frame) |->
        [f \in DOMAIN frame[i] \cup {"OriginalIdx"} |->
            IF f = "OriginalIdx" THEN i - 1 ELSE frame[i][f]]]

\* maxmean up to the sweep: the shift is made on self.input_df itself
MaxmeanPrepare ==
    /\ pc = "read"
    /\ args.method \in {"maxmean", "pq"}
    /\ LET cand == Candidates(AddOriginalIdx(input_df), args.input_type,
                              args.window_bins, args.percentile)
       IN  /\ df' = SortByPriority(cand, args.method = "pq")
           /\ hits' = [i \in 0..(Len(cand) - 1) |-> FALSE]
    /\ input_df' = ShiftWindow(AddOriginalIdx(input_df), args.window_bins)
    /\ indices' = <<>>
    /\ k' = MAX_ELEMENTS
    /\ loc' = 0
    /\ pc' = "sweep"
    /\ UNCHANGED <<args, wisVars, output_df>>

\* one iteration of the loop of lines 316-340, or its exit
SweepStep ==
    /\ pc = "sweep"
    /\ IF loc < Len(df) /\ ~(k <= 0)
       THEN LET n     == Len(df)
                jj    == df[loc + 1].MethodIdx
                start == SpanStart(jj, args.window_bins)
                stop  == SpanStop(jj, args.window_bins, n)
            IN  /\ IF ~(\E i \in Slice(start, stop) : hits[i])
                   THEN /\ hits' = [i \in DOMAIN hits |->
                                      IF i \in Slice(start, stop) THEN TRUE ELSE hits[i]]
                        /\ indices' = Append(indices, jj)
                        /\ k' = k - 1
                   ELSE UNCHANGED <<hits, indices, k>>
                /\ loc' = loc + 1
                /\ pc' = "sweep"
       ELSE /\ pc' = "project"
            /\ UNCHANGED <<hits, indices, k, loc>>
    /\ UNCHANGED <<args, input_df, df, wisVars, output_df>>

MaxmeanReturn ==
    /\ pc = "project"
    /\ output_df' = Project(df, indices, args.aggregation_method,
                            args.method = "pq", args.window_bins)
    /\ pc' = "done"
    /\ UNCHANGED <<args, input_df, df, sweepVars, wisVars>>

NextSweep == Construct \/ Read \/ MaxmeanPrepare \/ SweepStep \/ MaxmeanReturn

SpecSweep == InitSweep /\ [][NextSweep]_vars

SpecTests == InitTests /\ [][NextSweep]_vars

\* --------------------------------------------------------------------- wis
\* d.merge(): per chromosome, the union of overlapping or bookended intervals,
\* as rows (Chromosome, Start, End) in chromosome and start order
RECURSIVE MergeSorted(_, _)
MergeSorted(rows, clusters) ==
    IF rows = <<>> THEN clusters
    ELSE LET r == Head(rows)
             n == Len(clusters)
         IN  IF n > 0 /\ clusters[n].Chromosome = r.Chromosome
                      /\ r.Start <= clusters[n].End
             THEN MergeSorted(Tail(rows),
                     [clusters EXCEPT ![n].End =
                         IF r.End > clusters[n].End THEN r.End ELSE clusters[n].End])
             ELSE MergeSorted(Tail(rows),
                     Append(clusters, [Chromosome |-> r.Chromosome,
                                       Start |-> r.Start, End |-> r.End]))

ByPosition(a, b) ==
    \/ a.Chromosome < b.Chromosome
    \/ a.Chromosome = b.Chromosome /\ a.Start < b.Start
    \/ a.Chromosome = b.Chromosome /\ a.Start = b.Start /\ a.End < b.End

SortByPosition(frame) ==
    StableSort(frame, [a \in Range(frame), b \in Range(frame) |-> ByPosition(a, b)])

Merge(frame) == MergeSorted(SortByPosition(frame), <<>>)

\* lines 203-220: shift, drop, and sort by (Chromosome, Start, End)
WisIntervals(frame, w) ==
    LET shifted == Dropna(ShiftWindow(frame, w))
        valid   == SelectSeq(shifted, LAMBDA r : r.Start < r.End)
    IN  SortByPosition(valid)

\* lines 223-229: acc_abs[i] becomes the sum of the ends of the clusters before
\* cluster i; dict(zip(...)) keeps, per chromosome, the entry of its last cluster
Acc(m) ==
    [c \in {m[i].Chromosome : i \in 1..Len(m)} |->
        LET last == SetMax({i \in 1..Len(m) : m[i].Chromosome = c})
        IN  SumSeq([i \in 1..(last - 1) |-> m[i].End])]

\* translate_genomic_coords_to_abs
Translate(acc, c, y) == y + acc[c]

\* bisect.bisect_right(a, x, lo, hi) on the 0-based array a
RECURSIVE BisectRight(_, _, _, _)
BisectRight(a, x, lo, hi) ==
    IF lo < hi
    THEN LET mid == (lo + hi) \div 2
         IN  IF x < a[mid + 1] THEN BisectRight(a, x, lo, mid)
             ELSE BisectRight(a, x, mid + 1, hi)
    ELSE lo

\* the search made over the starts in place of the ends
PredecessorsByStart(ss, ee) ==
    [i \in 1..Len(ss) |-> BisectRight(ss, ss[i], 0, Len(ss)) - 1]

\* lines 239-242; position jx + 1 holds p[jx]
Predecessors(ss, ee) ==
    [i \in 1..Len(ss) |-> BisectRight(ee, ss[i], 0, Len(ee)) - 1]

\* opt is a defaultdict(int): a missing key reads as 0
OptGet(o, i) == IF i \in DOMAIN o THEN o[i] ELSE 0

Max2(a, b) == IF a >= b THEN a ELSE b

\* opt[-1] = 0; opt[0] = 0
InitialOpt == [i \in {0 - 1, 0} |-> 0]

\* lines 248-250, from jx up to n - 1
RECURSIVE ForwardPass(_, _, _, _)
ForwardPass(o, jx, frame, pp) ==
    IF jx >= Len(frame) THEN o
    ELSE LET score == frame[jx + 1].Score
             v     == Max2(score + OptGet(o, pp[jx + 1]), OptGet(o, jx - 1))
         IN  ForwardPass([i \in DOMAIN o \cup {jx} |-> IF i = jx THEN v ELSE o[i]],
                         jx + 1, frame, pp)

\* the test of the trace with a tie taken for an inclusion
IncludedOnTie(score, viaPredecessor, skipping) == score + viaPredecessor >= skipping

\* the test of the backward trace, line 257
Included(score, viaPredecessor, skipping) == score + viaPredecessor > skipping

\* lines 198-242
WisPrepare ==
    /\ pc = "read"
    /\ args.method = "wis"
    /\ LET sorted == WisIntervals(input_df, args.window_bins)
           acc    == Acc(Merge(input_df))
           ss     == [i \in 1..Len(sorted) |->
                         Translate(acc, sorted[i].Chromosome, sorted[i].Start)]
           ee     == [i \in 1..Len(sorted) |->
                         Translate(acc, sorted[i].Chromosome, sorted[i].End)]
       IN  /\ df' = sorted
           /\ s' = ss
           /\ e' = ee
           /\ p' = Predecessors(ss, ee)
    /\ pc' = "forward"
    /\ UNCHANGED <<args, input_df, sweepVars, opt, q, j, output_df>>

\* lines 243-254
WisForward ==
    /\ pc = "forward"
    /\ opt' = ForwardPass(InitialOpt, 1, df, p)
    /\ q' = <<>>
    /\ j' = Len(df) - 1
    /\ pc' = "trace"
    /\ UNCHANGED <<args, input_df, df, sweepVars, s, e, p, output_df>>

\* one iteration of the loop of lines 255-261, or its exit
WisTraceStep ==
    /\ pc = "trace"
    /\ IF j >= 0
       THEN /\ IF Included(df[j + 1].Score, OptGet(opt, p[j + 1]), OptGet(opt, j - 1))
               THEN q' = Append(q, j) /\ j' = p[j + 1]
               ELSE q' = q /\ j' = j - 1
            /\ pc' = "trace"
       ELSE /\ pc' = "traced"
            /\ UNCHANGED <<q, j>>
    /\ UNCHANGED <<args, input_df, df, sweepVars, s, e, p, opt, output_df>>

\* lines 262-265: q.sort(); df.iloc[q]
Iloc(frame, qq) ==
    LET sq == Sorted(qq)
    IN  [i \in 1..Len(sq) |-> frame[sq[i] + 1]]

WisReturn ==
    /\ pc = "traced"
    /\ q' = Sorted(q)
    /\ output_df' = Iloc(df, q)
    /\ pc' = "done"
    /\ UNCHANGED <<args, input_df, df, sweepVars, s, e, p, opt, j>>

\* ---------------------------------------------------------- inputs of wis
\* the intervals [a, b) of two chromosomes with coordinates up to maxCoord
Intervals(maxCoord) ==
    {x \in {<<c, a, b>> : c \in 1..2, a \in 0..maxCoord, b \in 0..maxCoord} :
        x[2] < x[3]}

SiteBefore(x, y) ==
    \/ x[1] < y[1]
    \/ x[1] = y[1] /\ x[2] < y[2]
    \/ x[1] = y[1] /\ x[2] = y[2] /\ x[3] < y[3]

RECURSIVE InOrder(_)
InOrder(S) ==
    IF S = {} THEN <<>>
    ELSE LET x == CHOOSE y \in S : \A z \in S \ {y} : SiteBefore(y, z)
         IN  <<x>> \o InOrder(S \ {x})

\* a sorted BED file of distinct intervals with their scores
BedFile(S, scores) ==
    LET sites == InOrder(S)
    IN  [i \in 1..Len(sites) |->
            [Chromosome |-> sites[i][1], Start |-> sites[i][2],
             End |-> sites[i][3], Score |-> scores[i]]]

BedFiles(maxRows, maxCoord, maxScore) ==
    UNION {{BedFile(S, sc) : sc \in [1..Cardinality(S) -> 0..maxScore]} :
              S \in {T \in SUBSET Intervals(maxCoord) : Cardinality(T) \in 1..maxRows}}

WisCalls(tables, maxWindow) ==
    {Call("wis", tb, "bedgraph", w, "max", 95, NoKeywords) :
        tb \in tables, w \in 1..maxWindow}

InitWis ==
    /\ args \in WisCalls(BedFiles(MaxRows, MaxCoord, MaxWisScore)
                            \cup BinTables(MaxBedLen, MaxScore), MaxWindow)
    /\ InitLocals

NextWis == Construct \/ Read \/ WisPrepare \/ WisForward \/ WisTraceStep \/ WisReturn

SpecWis == InitWis /\ [][NextWis]_vars

Init == InitSweep \/ InitTests \/ InitWis

Next == NextSweep \/ NextWis

Spec == Init /\ [][Next]_vars

\* ==================================================================== claims
Swept == args.method \in {"maxmean", "pq"} /\ pc \in {"sweep", "project", "done"}

\* the raw score of the input row with 0-based index o
RawScore(o) ==
    IF args.input_type = "vector" THEN args.input[o + 1] ELSE args.input[o + 1].Score

\* the raw scores of the closed window [o - left, o + right] of the input
RawWindow(o, w) == [i \in 1..w |-> RawScore(o - Left(w) + i - 1)]

Span(jx, w) == (jx - Left(w))..(jx + Right(w))

Distance(a, b) == IF a >= b THEN a - b ELSE b - a

\* C1: at every point of the sweep, any two accepted candidates have disjoint
\* exclusion spans [j-left, j+right], and their candidate positions and their
\* original indices differ by at least window_bins
C1_AcceptedSpansDisjoint ==
    Swept =>
        \A x, y \in 1..Len(indices) :
            x # y =>
                LET a == indices[x]
                    b == indices[y]
                    w == args.window_bins
                IN  /\ Span(a, w) \cap Span(b, w) = {}
                    /\ Distance(a, b) >= w
                    /\ Distance(RowByLabel(df, a).OriginalIdx,
                                RowByLabel(df, b).OriginalIdx) >= w

\* two candidates accepted with an odd window, one span clamped at 0 and one at n
C1_Witness ==
    /\ Swept /\ pc = "project"
    /\ args.window_bins = 3
    /\ \E a, b \in Range(indices) :
          /\ a # b
          /\ a - Left(3) < 0
          /\ b + Right(3) + 1 > Len(df)

ExampleRun ==
    /\ args.input_type = "vector"
    /\ args.input = TestVector
    /\ args.method = "maxmean"
    /\ args.window_bins = 3
    /\ args.aggregation_method = "max"
    /\ args.kwargs = NoKeywords

Whole(x) == [num |-> x, den |-> 1]

\* C4 (as amended): the run on the example vector with window_bins=3 and
\* aggregation max returns the bins of original indices 3, 6, 9, 12, in that
\* order, with scores 10, 8, 10, 1
C4_ExampleSelection ==
    (pc = "done" /\ ExampleRun) =>
        /\ Column(output_df, "OriginalIdx") = <<3, 6, 9, 12>>
        /\ Column(output_df, "Score") = <<Whole(10), Whole(8), Whole(10), Whole(1)>>

C4_Witness == pc = "done" /\ ExampleRun /\ Len(output_df) = 4

\* C4 (as claimed): the same run returns the bins of original indices 3, 7, 10,
\* 14 with scores 10, 8, 10, 5
C4_SpecExample ==
    (pc = "done" /\ ExampleRun) =>
        /\ Column(output_df, "OriginalIdx") = <<3, 7, 10, 14>>
        /\ Column(output_df, "Score") = <<Whole(10), Whole(8), Whole(10), Whole(5)>>

\* C5 (as claimed): a run constructed with max_elements=m is carried out, and
\* accepts at most m candidates
C5_ConfiguredCapIsHard ==
    \A kw \in Range(args.kwargs) :
        kw[1] = "max_elements" =>
            /\ pc # "TypeError"
            /\ Len(indices) <= kw[2]

AggregateOfWindow(o) ==
    [num |-> Aggregate(args.aggregation_method,
                       RawWindow(o, args.window_bins), args.percentile),
     den |-> Den(args.aggregation_method, args.window_bins)]

\* C6 (as amended): under maxmean and under pq alike, the output score of every
\* selected bin is the chosen rolling aggregate of the raw scores of the bin's
\* window [o-left, o+right]
C6_OutputScoreIsAggregate ==
    (pc = "done" /\ args.method \in {"maxmean", "pq"}) =>
        \A i \in 1..Len(output_df) :
            output_df[i].Score = AggregateOfWindow(output_df[i].OriginalIdx)

\* a pq run whose selected bin has a window mean other than its raw score
C6_Witness ==
    /\ pc = "done" /\ args.method = "pq" /\ args.aggregation_method = "mean"
    /\ \E i \in 1..Len(output_df) :
          output_df[i].Score.num
              # RawScore(output_df[i].OriginalIdx) * output_df[i].Score.den

\* C6 (as claimed): under pq the output score is the bin's raw score, under
\* maxmean the chosen rolling aggregate
C6_PqKeepsRawScore ==
    (pc = "done" /\ args.method \in {"maxmean", "pq"}) =>
        \A i \in 1..Len(output_df) :
            IF args.method = "pq"
            THEN output_df[i].Score.num
                    = RawScore(output_df[i].OriginalIdx) * output_df[i].Score.den
            ELSE output_df[i].Score = AggregateOfWindow(output_df[i].OriginalIdx)

\* C7 (as claimed): on a vector of length L, bin o is a candidate exactly when
\* its window [o-left, o+right] lies inside [0, L-1], and its rolling statistics
\* are those of the raw scores of that window
C7_CandidatesAreCompleteWindows ==
    (Swept /\ args.input_type = "vector") =>
        LET w == args.window_bins
            L == Len(args.input)
        IN  /\ {df[i].OriginalIdx : i \in 1..Len(df)}
                  = {o \in 0..(L - 1) : o - Left(w) >= 0 /\ o + Right(w) <= L - 1}
            /\ \A i \in 1..Len(df) : \A a \in AggregationMethods :
                  df[i][RollingColumn(a)]
                      = Aggregate(a, RawWindow(df[i].OriginalIdx, w), args.percentile)

\* C8 (as claimed): no candidate of a bedgraph run has a window of table rows
\* holding rows of two chromosomes
C8_NoWindowSpansChromosomes ==
    (Swept /\ args.input_type = "bedgraph") =>
        \A i \in 1..Len(df) :
            LET o == df[i].OriginalIdx
                w == args.window_bins
            IN  \A x \in (o - Left(w))..(o + Right(w)) :
                    args.input[x + 1].Chromosome = df[i].Chromosome

Traced == args.method = "wis" /\ pc = "done"

Disjoint(a, b) == e[a + 1] <= s[b + 1] \/ e[b + 1] <= s[a + 1]

\* C2 (as claimed): any two intervals of the Selection of wis are disjoint in
\* absolute coordinates: the earlier one ends at or before the start of the later
C2_SelectionDisjoint ==
    Traced =>
        \A x, y \in 1..Len(q) : x < y => e[q[x] + 1] <= s[q[y] + 1]

Total(T) == SumSeq([i \in 1..Len(T) |-> df[T[i] + 1].Score])

RECURSIVE SetTotal(_)
SetTotal(T) ==
    IF T = {} THEN 0
    ELSE LET x == CHOOSE y \in T : TRUE
         IN  df[x + 1].Score + SetTotal(T \ {x})

BestTotal ==
    SetMax({SetTotal(T) :
              T \in {U \in SUBSET (0..(Len(df) - 1)) :
                        \A a, b \in U : a # b => Disjoint(a, b)}})

\* C3 (as claimed): the total score of the Selection of wis is the largest total
\* score of a set of pairwise disjoint sorted intervals
C3_WisIsExact == Traced => Total(q) = BestTotal

\* C9 (as amended): every interval of the Selection of wis carries the shifted
\* boundaries used for scheduling, the start of the row left rows before its own
\* and the end of the row right rows after it, and the Selection is in ascending
\* sorted-index order
C9_SelectionCarriesShifted ==
    Traced =>
        LET w == args.window_bins
            frame == ReadBed(args.input)
        IN  /\ \A x, y \in 1..Len(q) : x < y => q[x] < q[y]
            /\ Len(output_df) = Len(q)
            /\ \A i \in 1..Len(output_df) :
                  /\ output_df[i] = df[q[i] + 1]
                  /\ \E x \in 1..Len(frame) :
                        /\ x - Left(w) >= 1 /\ x + Right(w) <= Len(frame)
                        /\ output_df[i].Chromosome = frame[x].Chromosome
                        /\ output_df[i].Score = frame[x].Score
                        /\ output_df[i].Start = frame[x - Left(w)].Start
                        /\ output_df[i].End = frame[x + Right(w)].End

\* a Selection of two intervals made with a window of more than one bin
C9_Witness == Traced /\ args.window_bins > 1 /\ Len(output_df) >= 2

\* C9 (as claimed): every interval of the Selection of wis is a row of the input
\* with its start and end as given, and the Selection is in ascending order
C9_SelectionCarriesOriginal ==
    Traced =>
        /\ \A x, y \in 1..Len(q) : x < y => q[x] < q[y]
        /\ \A i \in 1..Len(output_df) :
              \E x \in 1..Len(args.input) : args.input[x] = output_df[i]

Tie(jx) == df[jx + 1].Score + OptGet(opt, p[jx + 1]) = OptGet(opt, jx - 1)

\* C10 (as amended): an exact tie prefers exclusion: an interval whose inclusion
\* ties is never collected by the backward trace
C10_TieExcludes ==
    args.method = "wis" => \A i \in 1..Len(q) : ~Tie(q[i])

\* two overlapping neighbours of equal positive score, the later one tying and
\* left out, the earlier one selected
C10_Witness ==
    /\ Traced
    /\ \E jx \in 1..(Len(df) - 1) :
          /\ Tie(jx)
          /\ df[jx + 1].Score = df[jx].Score /\ df[jx].Score > 0
          /\ ~Disjoint(jx - 1, jx)
          /\ jx \notin Range(q) /\ (jx - 1) \in Range(q)

\* C10 (as claimed): of two neighbours of equal score whose inclusion ties, the
\* later is left out and the earlier is selected
C10_TieSelectsEarlier ==
    Traced =>
        \A jx \in 1..(Len(df) - 1) :
            (df[jx + 1].Score = df[jx].Score /\ Tie(jx)) =>
                (jx \notin Range(q) /\ (jx - 1) \in Range(q))

\* p has been computed
Scheduled == args.method = "wis" /\ pc \in {"forward", "trace", "traced", "done"}

\* every predecessor lies in -1..(jx - 1)
PredecessorsBelow ==
    Scheduled => \A jx \in 0..(Len(df) - 1) : p[jx + 1] \in (0 - 1)..(jx - 1)

\* the trace stays in -1..(n - 1), and it has collected strictly decreasing
\* indices, all above its position
TraceInRange ==
    (args.method = "wis" /\ pc \in {"trace", "traced"}) =>
        /\ j \in (0 - 1)..(Len(df) - 1)
        /\ \A x \in 1..Len(q) : q[x] > j
        /\ \A x, y \in 1..Len(q) : x < y => q[x] > q[y]

\* an iteration of the trace: the loop is entered with j >= 0
TraceIterates == pc = "trace" /\ j >= 0

====
